---- MODULE Spec2Model ----
(***************************************************************************)
(* Model of the wiki generation orchestrator of deepwiki-open: the useWiki *)
(* hook (hooks/useWiki.ts), the WikiService it calls and the page that     *)
(* drives it.                                                              *)
(*                                                                         *)
(* One step of the model is one synchronous run of hook code between two   *)
(* network suspension points, followed by the render React performs for    *)
(* the batched state updates and by the effects of that render.  Every     *)
(* invocation of loadWiki is an asynchronous activation ("run") that keeps *)
(* the values of the render it was created in (its closure).               *)
(***************************************************************************)
EXTENDS Integers, Sequences, FiniteSets, TLC

\* Bound: number of loadWiki invocations (the mount load plus refreshes).
MaxCycles == 2

Runs == 1..MaxCycles

\* Bound: number of export requests that wait for their response.
MaxExports == 2

\* Longest excluded-path input the route is given, in characters, beside
\* the inputs listed by name.
MaxLen == 4

----------------------------------------------------------------------------
\* Values

Null == "null"

\* wikiStructure when it is null or undefined
NoStructure == [id |-> "null", pages |-> <<>>]

PageIds == {"p1", "p2"}

Intro == [id |-> "p1", title |-> "Intro", importance |-> "high"]
Setup == [id |-> "p2", title |-> "Setup", importance |-> "low"]

\* Structures the Content Generation Service may return.
Structures ==
    { [id |-> "s1", pages |-> <<Intro, Setup>>],
      [id |-> "s0", pages |-> <<>>] }

LoadingContent == "Loading..."
GeneratedContent == "generated text"
PageFailure == "Failed to generate page content: Internal Server Error"
StructureFailure == "Failed to generate wiki structure: Internal Server Error"
TypeErrorPages == "Cannot read properties of undefined (reading 'pages')"

\* Status strings: a template and the page title it is filled with.
MsgInit == <<"Initializing wiki generation...", "">>
MsgStructure == <<"Analyzing repository structure...", "">>

GeneratingMessage(page) == <<"Generating content for \"${page.title}\"...", page.title>>

\* `Error generating content: ${err.message}`
ErrorSentinel(msg) ==
    IF msg = PageFailure
    THEN "Error generating content: Failed to generate page content: Internal Server Error"
    ELSE "Error generating content: Unknown error"

\* {...page, content}
WithContent(page, content) ==
    [id |-> page.id, title |-> page.title, importance |-> page.importance,
     content |-> content]

\* A record the cache store may already hold when the page is opened.
StoredRecord ==
    [structure |-> [id |-> "s1", pages |-> <<Intro, Setup>>],
     pages |-> << WithContent(Intro, GeneratedContent),
                  WithContent(Setup, GeneratedContent) >>]

\* The cache store holds nothing.
NoRecord == [structure |-> NoStructure, pages |-> <<>>]

\* A response body { pages: {...} } that has no structure.
RecordWithoutStructure ==
    [structure |-> NoStructure, pages |-> << WithContent(Intro, GeneratedContent) >>]

\* getWikiCache returned null
NoData == [found |-> FALSE, wikiStructure |-> NoStructure, generatedPages |-> <<>>]

\* throw new Error('Wiki structure not available')
StructureUnavailable == "Wiki structure not available"

\* `Failed to export wiki: ${response.statusText}`
ExportFailure == "Failed to export wiki: Internal Server Error"

\* The message of the TypeError of a fetch that failed.
FetchFailure == "Failed to fetch"

Formats == {"json", "markdown"}

\* Outcomes of POST /export/wiki.
ExportOutcomes == {"ok", "notok", "transport"}

\* a.download: `${repoInfo.repo}_wiki.json` or `${repoInfo.repo}_wiki.md`
FileName(format) == IF format = "json" THEN "repo_wiki.json" ELSE "repo_wiki.md"

\* No file has been handed to the browser.
NoDownload == [name |-> "", format |-> "", pages |-> <<>>]

\* Outcomes of GET /api/wiki_cache.
CacheOutcomes == {"transport", "notok", "badjson", "empty", "nostructure", "record"}

----------------------------------------------------------------------------
\* The content map: a JavaScript object, i.e. keys in insertion order.

Keys(gp) == { gp[i].id : i \in 1..Len(gp) }

HasKey(gp, id) == \E i \in 1..Len(gp) : gp[i].id = id

Entry(gp, id) == gp[CHOOSE i \in 1..Len(gp) : gp[i].id = id]

\* { [page.id]: entry }: the previous entries are not spread into the map.
PutWithoutSpread(gp, entry) == <<entry>>

\* {...prev, [page.id]: entry}
Put(gp, entry) ==
    IF HasKey(gp, entry.id)
    THEN [i \in 1..Len(gp) |-> IF gp[i].id = entry.id THEN entry ELSE gp[i]]
    ELSE gp \o <<entry>>

\* pages[page.id] = {...page, content: 'Loading...'} for every page
RECURSIVE InitialPages(_)
InitialPages(pages) ==
    IF pages = <<>> THEN <<>>
    ELSE Put(InitialPages(SubSeq(pages, 1, Len(pages) - 1)),
             WithContent(pages[Len(pages)], LoadingContent))

\* isComprehensiveView || page.importance === 'high'
Selected(page, comprehensive) == comprehensive \/ page.importance = "high"

\* Page the loop of generateAllPages issues next, from index from on:
\* pages that are not selected, or whose id is in the in-flight map, are
\* passed over.  0 when the loop ends.
\* The loop without the in-flight check of generatePageContent.
NextIssueUnguarded(pages, comprehensive, from, active) ==
    LET c == { j \in from..Len(pages) : Selected(pages[j], comprehensive) }
    IN  IF c = {} THEN 0 ELSE CHOOSE j \in c : \A k \in c : j <= k

NextIssue(pages, comprehensive, from, active) ==
    LET c == { j \in from..Len(pages) :
                 /\ Selected(pages[j], comprehensive)
                 /\ pages[j].id \notin active }
    IN  IF c = {} THEN 0 ELSE CHOOSE j \in c : \A k \in c : j <= k

\* Ids of the selected pages from index from on that the loop passes over
\* before it reaches index upto, because they are in the in-flight map.
PassedOver(pages, comprehensive, from, upto, active) ==
    { pages[k].id : k \in { k \in from..(upto - 1) :
                              /\ Selected(pages[k], comprehensive)
                              /\ pages[k].id \in active } }

\* getWikiCache reading the pages from a field the response does not have.
GetWikiCacheWrongField(outcome, stored) ==
    CASE outcome \in {"transport", "notok", "badjson", "empty"} -> NoData
      [] outcome = "nostructure" ->
            [found |-> TRUE,
             wikiStructure |-> RecordWithoutStructure.structure,
             generatedPages |-> <<>>]
      [] outcome = "record" ->
            [found |-> TRUE,
             wikiStructure |-> stored.structure, generatedPages |-> <<>>]

\* WikiService.getWikiCache: what the caller receives for each outcome.
GetWikiCache(outcome, stored) ==
    CASE outcome \in {"transport", "notok", "badjson", "empty"} -> NoData
      [] outcome = "nostructure" ->
            [found |-> TRUE,
             wikiStructure |-> RecordWithoutStructure.structure,
             generatedPages |-> RecordWithoutStructure.pages]
      [] outcome = "record" ->
            [found |-> TRUE,
             wikiStructure |-> stored.structure, generatedPages |-> stored.pages]

\* Outcomes of POST /api/wiki_cache.
SaveOutcomes == {"ok", "notok", "transport"}

\* WikiService.saveWikiCache: the boolean the caller receives; a response
\* that is not ok and a failed fetch are caught and reported as false.
SaveWikiCache(outcome) == outcome = "ok"

\* The condition of saveToCache without its !error conjunct.
CanSaveIgnoringError(loading, err, structure, gp) ==
    /\ ~loading
    /\ structure # NoStructure
    /\ Len(gp) > 0

\* The condition of saveToCache before the cache-sourced flag is looked at.
CanSave(loading, err, structure, gp) ==
    /\ ~loading
    /\ err = Null
    /\ structure # NoStructure
    /\ Len(gp) > 0

----------------------------------------------------------------------------
VARIABLES
    isLoading, isRefreshing, error, loadingMessage, wikiStructure,
    generatedPages, currentPageId, pagesInProgress,
    activeContentRequests, cacheLoadedSuccessfully,
    run,                   \* the activations of loadWiki
    cycle,                 \* number of cycles started so far
    cache,                 \* the record held by the cache store
    lastSaves,             \* history: the saves the last step issued
    savesInCycle,          \* history: saves issued since the cycle started
    finished,              \* history: the run that ended last
    origin,                \* history: cycle that wrote each content entry
    exportError,
    exportCalls,           \* the export requests that wait for their response
    download,              \* history: the last file handed to the browser
    exportEvent,           \* history: the last export step
    declaration,           \* which declaration of POST in route.ts serves
    requestBody,           \* excludedDirs, excludedFiles of the request
    backendRequestBody,    \* what the route sends to the backend
    routeResponse,         \* what the route answers
    structureResult,       \* how generateWikiStructure settles
    routePc,               \* position of the structure request
    effectRan,             \* the ref the mount effect sets
    language,              \* a dependency of the mount effect
    autoLoads              \* history: loads the mount effect started

vars == << isLoading, isRefreshing, error, loadingMessage, wikiStructure,
           generatedPages, currentPageId, pagesInProgress,
           activeContentRequests, cacheLoadedSuccessfully,
           run, cycle, cache, lastSaves,
           savesInCycle, finished, origin,
           exportError, exportCalls, download, exportEvent,
           declaration, requestBody, backendRequestBody, routeResponse,
           structureResult, routePc, effectRan, language, autoLoads >>

\* What the load and refresh code reads and writes.
loadVars == << isLoading, isRefreshing, error, loadingMessage, wikiStructure,
               generatedPages, currentPageId, pagesInProgress,
               activeContentRequests, cacheLoadedSuccessfully,
               run, cycle, cache, lastSaves,
               savesInCycle, finished, origin >>

\* What the export code writes.
exportVars == << exportError, exportCalls, download, exportEvent >>

\* What the structure request through the route writes.
routeVars == << declaration, requestBody, backendRequestBody, routeResponse,
               structureResult, routePc >>

\* What the mount effect writes, with the dependency it watches.
mountVars == << effectRan, language, autoLoads >>

Languages == {"en", "ja"}

\* The mount effect has run once and called loadWiki.
Mounted ==
    /\ effectRan = TRUE
    /\ language = "en"
    /\ autoLoads = 1

\* The route variables while no structure request is followed.
NoBody == [excluded_dirs |-> <<>>, excluded_files |-> <<>>]
NoResponse == [status |-> "", error |-> <<>>]
NoResult == [ok |-> TRUE, message |-> <<>>]
RouteIdle ==
    /\ declaration = 0
    /\ requestBody = [excludedDirs |-> <<>>, excludedFiles |-> <<>>]
    /\ backendRequestBody = NoBody
    /\ routeResponse = NoResponse
    /\ structureResult = NoResult
    /\ routePc = "none"

\* The values a render hands to the functions it creates; the prop
\* isComprehensiveView is an input of the render.
Closure(comprehensive) ==
    [isLoading |-> isLoading, error |-> error, wikiStructure |-> wikiStructure,
     generatedPages |-> generatedPages, currentPageId |-> currentPageId,
     isComprehensiveView |-> comprehensive]

NoClosure ==
    [isLoading |-> TRUE, error |-> Null, wikiStructure |-> NoStructure,
     generatedPages |-> <<>>, currentPageId |-> "",
     isComprehensiveView |-> TRUE]

\* An activation of loadWiki: where it is suspended (pc), its closure, the
\* structure and loop index of generateAllPages, and history of the calls it
\* made.
IdleRun ==
    [pc |-> "idle", cl |-> NoClosure, structure |-> NoStructure, idx |-> 0,
     response |-> "none", structureCalls |-> 0, issued |-> <<>>,
     skipped |-> {}, failed |-> {}, saves |-> 0]

StartedRun(cl) == [IdleRun EXCEPT !.pc = "cache", !.cl = cl]

DoneRun == [IdleRun EXCEPT !.pc = "done"]

\* The mount effect starts run 1, refreshWiki every later one.
Kind(r) == IF r = 1 THEN "mount" ELSE "refresh"

NoneFinished ==
    [id |-> 0, outcome |-> "none", view |-> TRUE, startedLoading |-> TRUE,
     structure |-> NoStructure,
     response |-> "none", structureCalls |-> 0, issued |-> <<>>,
     skipped |-> {}, failed |-> {}, saves |-> 0]

\* The history record of run r when it ends with the given outcome.
Finished(r, rr, outcome) ==
    [id |-> r, outcome |-> outcome, view |-> rr.cl.isComprehensiveView,
     startedLoading |-> rr.cl.isLoading,
     structure |-> rr.structure, response |-> rr.response,
     structureCalls |-> rr.structureCalls, issued |-> rr.issued,
     skipped |-> rr.skipped, failed |-> rr.failed, saves |-> rr.saves]

\* Page of the call run r is waiting for.
CurrentPage(r) == run[r].structure.pages[run[r].idx]

\* Runs with an outstanding backend call for page id p.
Outstanding(p) == { r \in Runs : run[r].pc = "page" /\ CurrentPage(r).id = p }

OutstandingPageCalls == { r \in Runs : run[r].pc = "page" }

----------------------------------------------------------------------------
Init ==
    \* the first render, then the mount effect has called loadWiki
    /\ isLoading = TRUE
    /\ isRefreshing = FALSE
    /\ error = Null
    /\ loadingMessage = MsgInit
    /\ wikiStructure = NoStructure
    /\ generatedPages = <<>>
    /\ currentPageId = ""
    /\ pagesInProgress = {}
    /\ activeContentRequests = {}
    /\ cacheLoadedSuccessfully = FALSE
    /\ \E comprehensive \in BOOLEAN :
         run = [r \in Runs |->
                  IF r = 1
                  THEN StartedRun([NoClosure EXCEPT
                           !.isComprehensiveView = comprehensive])
                  ELSE IdleRun]
    /\ cycle = 1
    /\ cache \in {NoRecord, StoredRecord}
    /\ lastSaves = <<>>
    /\ savesInCycle = 0
    /\ finished = NoneFinished
    /\ origin = [p \in PageIds |-> 0]
    /\ exportError = Null
    /\ exportCalls = <<>>
    /\ download = NoDownload
    /\ exportEvent = "none"
    /\ Mounted
    /\ RouteIdle

\* The render that follows a step, and its save effect
\* (useEffect(() => { saveToCache() }, [isLoading, error, wikiStructure,
\* generatedPages])).  objChanged: the step installed a new structure or
\* content map object.  runSaves: saves the step itself issued before the
\* render.  store: the cache store after the step's own writes.
Render(objChanged, runSaves, store) ==
    LET changed == objChanged \/ isLoading' # isLoading \/ error' # error
        effect  == /\ changed
                   /\ CanSave(isLoading', error', wikiStructure', generatedPages')
                   /\ ~cacheLoadedSuccessfully'
        payload == [structure |-> wikiStructure', pages |-> generatedPages']
        entry   == [by |-> 0, structure |-> wikiStructure',
                    pages |-> generatedPages']
        before  == IF cycle' = cycle THEN savesInCycle ELSE 0
    IN  IF effect
        THEN /\ lastSaves' = runSaves \o <<entry>>
             /\ savesInCycle' = before + Len(runSaves) + 1
             /\ \E outcome \in SaveOutcomes :
                  cache' = IF SaveWikiCache(outcome) THEN payload ELSE store
        ELSE /\ lastSaves' = runSaves
             /\ savesInCycle' = before + Len(runSaves)
             /\ cache' = store

\* A refreshWiki without its finally block.
RefreshingKept(r) == isRefreshing

\* refreshWiki's finally block, for runs started by it.
RefreshingAfter(r) == IF Kind(r) = "refresh" THEN FALSE ELSE isRefreshing

\* loadWiki leaves through its catch block.
Fail(r, rr, cause) ==
    /\ error' = cause
    /\ isLoading' = FALSE
    /\ isRefreshing' = RefreshingAfter(r)
    /\ run' = [run EXCEPT ![r] = DoneRun]
    /\ finished' = Finished(r, rr, "failed")

\* The caller's loop after a generatePageContent without its finally block:
\* the in-flight map and the progress set keep the page id.
AdvanceWithoutFinally(r, rr, from, removed, shown) ==
    LET active == activeContentRequests
        progress == pagesInProgress
        j == NextIssue(rr.structure.pages, rr.cl.isComprehensiveView, from, active)
        page == rr.structure.pages[j]
        upto == IF j # 0 THEN j ELSE Len(rr.structure.pages) + 1
        passed == PassedOver(rr.structure.pages, rr.cl.isComprehensiveView,
                             from, upto, active)
        rs == [rr EXCEPT !.skipped = @ \cup passed]
        stale == /\ CanSave(rr.cl.isLoading, rr.cl.error, rr.cl.wikiStructure,
                            rr.cl.generatedPages)
                 /\ ~cacheLoadedSuccessfully'
        entry == [by |-> r, structure |-> rr.cl.wikiStructure,
                  pages |-> rr.cl.generatedPages]
    IN  IF j # 0
        THEN /\ activeContentRequests' = active \cup {page.id}
             /\ pagesInProgress' = progress \cup {page.id}
             /\ loadingMessage' = GeneratingMessage(page)
             /\ run' = [run EXCEPT ![r] = [rs EXCEPT !.pc = "page", !.idx = j,
                                             !.issued = Append(@, page.id)]]
             /\ UNCHANGED << isLoading, isRefreshing, finished >>
             /\ Render(TRUE, <<>>, cache)
        ELSE /\ activeContentRequests' = active
             /\ pagesInProgress' = progress
             /\ UNCHANGED loadingMessage
             /\ IF stale
                THEN /\ run' = [run EXCEPT ![r] = [rs EXCEPT !.pc = "save", !.idx = 0,
                                                     !.saves = @ + 1]]
                     /\ UNCHANGED << isLoading, isRefreshing, finished >>
                     /\ Render(TRUE, <<entry>>, cache)
                ELSE /\ run' = [run EXCEPT ![r] = DoneRun]
                     /\ finished' = Finished(r, rs, "generated")
                     /\ isLoading' = FALSE
                     /\ isRefreshing' = RefreshingAfter(r)
                     /\ Render(TRUE, <<>>, cache)

\* The rest of generateAllPages from page index from on, then saveToCache of
\* the run's closure and setIsLoading(false).  rr: the run's record so far;
\* active, progress: in-flight map and progress set after the step's removals.
Advance(r, rr, from, active, progress) ==
    LET j == NextIssue(rr.structure.pages, rr.cl.isComprehensiveView, from, active)
        page == rr.structure.pages[j]
        upto == IF j # 0 THEN j ELSE Len(rr.structure.pages) + 1
        passed == PassedOver(rr.structure.pages, rr.cl.isComprehensiveView,
                             from, upto, active)
        rs == [rr EXCEPT !.skipped = @ \cup passed]
        stale == /\ CanSave(rr.cl.isLoading, rr.cl.error, rr.cl.wikiStructure,
                            rr.cl.generatedPages)
                 /\ ~cacheLoadedSuccessfully'
        entry == [by |-> r, structure |-> rr.cl.wikiStructure,
                  pages |-> rr.cl.generatedPages]
    IN  IF j # 0
        THEN /\ activeContentRequests' = active \cup {page.id}
             /\ pagesInProgress' = progress \cup {page.id}
             /\ loadingMessage' = GeneratingMessage(page)
             /\ run' = [run EXCEPT ![r] = [rs EXCEPT !.pc = "page", !.idx = j,
                                             !.issued = Append(@, page.id)]]
             /\ UNCHANGED << isLoading, isRefreshing, finished >>
             /\ Render(TRUE, <<>>, cache)
        ELSE /\ activeContentRequests' = active
             /\ pagesInProgress' = progress
             /\ UNCHANGED loadingMessage
             /\ IF stale
                THEN /\ run' = [run EXCEPT ![r] = [rs EXCEPT !.pc = "save", !.idx = 0,
                                                     !.saves = @ + 1]]
                     /\ UNCHANGED << isLoading, isRefreshing, finished >>
                     /\ Render(TRUE, <<entry>>, cache)
                ELSE /\ run' = [run EXCEPT ![r] = DoneRun]
                     /\ finished' = Finished(r, rs, "generated")
                     /\ isLoading' = FALSE
                     /\ isRefreshing' = RefreshingAfter(r)
                     /\ Render(TRUE, <<>>, cache)

----------------------------------------------------------------------------
\* A refreshWiki that also empties the progress set.
refreshWikiClearsProgress(comprehensive) ==
    /\ cycle < MaxCycles
    /\ UNCHANGED exportVars
    /\ UNCHANGED mountVars
    /\ UNCHANGED routeVars
    /\ isRefreshing' = TRUE
    /\ cacheLoadedSuccessfully' = FALSE
    /\ isLoading' = TRUE
    /\ error' = Null
    /\ loadingMessage' = MsgInit
    /\ cycle' = cycle + 1
    /\ run' = [run EXCEPT ![cycle + 1] = StartedRun(Closure(comprehensive))]
    /\ pagesInProgress' = {}
    /\ UNCHANGED << wikiStructure, generatedPages, currentPageId,
                    activeContentRequests, finished, origin >>
    /\ Render(FALSE, <<>>, cache)

\* refreshWiki, which calls loadWiki up to its first await.
refreshWiki(comprehensive) ==
    /\ cycle < MaxCycles
    /\ UNCHANGED exportVars
    /\ UNCHANGED mountVars
    /\ UNCHANGED routeVars
    /\ isRefreshing' = TRUE
    /\ cacheLoadedSuccessfully' = FALSE
    /\ isLoading' = TRUE
    /\ error' = Null
    /\ loadingMessage' = MsgInit
    /\ cycle' = cycle + 1
    /\ run' = [run EXCEPT ![cycle + 1] = StartedRun(Closure(comprehensive))]
    /\ UNCHANGED << wikiStructure, generatedPages, currentPageId, pagesInProgress,
                    activeContentRequests, finished, origin >>
    /\ Render(FALSE, <<>>, cache)

\* The Refresh button of WikiNavigation, rendered in the wiki view only.
RefreshButton ==
    /\ ~isLoading /\ error = Null /\ wikiStructure # NoStructure
    /\ ~isRefreshing
    /\ \E comprehensive \in BOOLEAN : refreshWiki(comprehensive)

\* Apply of the model selection modal, rendered in every view; the modal
\* may have switched the view mode.
handleModelSelectionApply ==
    /\ \E comprehensive \in BOOLEAN : refreshWiki(comprehensive)

\* Page selection in the navigation tree of the wiki view.
setCurrentPageId(p) ==
    /\ ~isLoading /\ error = Null /\ wikiStructure # NoStructure
    /\ \E i \in 1..Len(wikiStructure.pages) : wikiStructure.pages[i].id = p
    /\ currentPageId' = p
    /\ UNCHANGED << isLoading, isRefreshing, error, loadingMessage, wikiStructure,
                    generatedPages, pagesInProgress, activeContentRequests,
                    cacheLoadedSuccessfully, run, cycle,
                    cache, lastSaves, savesInCycle, finished, origin >>
    /\ UNCHANGED exportVars
    /\ UNCHANGED mountVars
    /\ UNCHANGED routeVars

\* loadWiki resumed with the result of WikiService.getWikiCache.
loadWikiAfterCache(r) ==
    /\ run[r].pc = "cache"
    /\ UNCHANGED exportVars
    /\ UNCHANGED mountVars
    /\ UNCHANGED routeVars
    /\ \E outcome \in CacheOutcomes :
        /\ outcome = "record" => cache # NoRecord
        /\ outcome = "empty" => cache = NoRecord
        /\ LET cachedData == GetWikiCache(outcome, cache)
               rr == [run[r] EXCEPT !.response =
                        IF outcome \in {"nostructure", "record"}
                        THEN outcome ELSE "absent"]
           IN
           IF ~cachedData.found
           THEN \* cache miss: the structure request is sent
                /\ loadingMessage' = MsgStructure
                /\ run' = [run EXCEPT ![r] = [rr EXCEPT !.pc = "structure",
                                                !.structureCalls = @ + 1]]
                /\ UNCHANGED << isLoading, isRefreshing, error, wikiStructure,
                                generatedPages, currentPageId, pagesInProgress,
                                activeContentRequests, cacheLoadedSuccessfully,
                                cycle, finished, origin >>
                /\ Render(FALSE, <<>>, cache)
           ELSE /\ wikiStructure' = cachedData.wikiStructure
                /\ generatedPages' = cachedData.generatedPages
                /\ origin' = [p \in PageIds |->
                                IF HasKey(cachedData.generatedPages, p) THEN r ELSE 0]
                /\ UNCHANGED << loadingMessage, pagesInProgress,
                                activeContentRequests, cycle >>
                /\ IF rr.cl.currentPageId = "" /\ cachedData.wikiStructure = NoStructure
                   THEN \* cachedData.wikiStructure.pages throws a TypeError
                        /\ Fail(r, rr, TypeErrorPages)
                        /\ UNCHANGED << currentPageId, cacheLoadedSuccessfully >>
                   ELSE /\ currentPageId' =
                             IF /\ rr.cl.currentPageId = ""
                                /\ Len(cachedData.wikiStructure.pages) > 0
                             THEN cachedData.wikiStructure.pages[1].id
                             ELSE currentPageId
                        /\ cacheLoadedSuccessfully' = TRUE
                        /\ isLoading' = FALSE
                        /\ isRefreshing' = RefreshingAfter(r)
                        /\ UNCHANGED error
                        /\ run' = [run EXCEPT ![r] = DoneRun]
                        /\ finished' = Finished(r, rr, "hit")
                /\ Render(TRUE, <<>>, cache)

\* loadWiki resumed with the result of WikiService.generateWikiStructure.
loadWikiAfterStructure(r) ==
    /\ run[r].pc = "structure"
    /\ UNCHANGED exportVars
    /\ UNCHANGED mountVars
    /\ UNCHANGED routeVars
    /\ \/ \E structure \in Structures :
            /\ wikiStructure' = structure
            /\ currentPageId' = IF Len(structure.pages) > 0
                                THEN structure.pages[1].id ELSE currentPageId
            /\ generatedPages' = InitialPages(structure.pages)
            /\ origin' = [p \in PageIds |->
                            IF HasKey(InitialPages(structure.pages), p) THEN r ELSE 0]
            /\ UNCHANGED << error, cacheLoadedSuccessfully, cycle >>
            /\ Advance(r, [run[r] EXCEPT !.structure = structure], 1,
                       activeContentRequests, pagesInProgress)
       \/ /\ Fail(r, run[r], StructureFailure)
          /\ UNCHANGED << loadingMessage, wikiStructure, generatedPages,
                          currentPageId, pagesInProgress, activeContentRequests,
                          cacheLoadedSuccessfully, cycle, origin >>
          /\ Render(FALSE, <<>>, cache)

\* A generatePageContent that calls setError(null) when its call returns.
generatePageContentClearsError(r) ==
    /\ run[r].pc = "page"
    /\ UNCHANGED exportVars
    /\ UNCHANGED mountVars
    /\ UNCHANGED routeVars
    /\ \E ok \in BOOLEAN :
        LET page == CurrentPage(r)
            content == IF ok THEN GeneratedContent ELSE ErrorSentinel(PageFailure)
            rr == [run[r] EXCEPT !.failed = IF ok THEN @ ELSE @ \cup {page.id}]
        IN  /\ generatedPages' = Put(generatedPages, WithContent(page, content))
            /\ origin' = [origin EXCEPT ![page.id] = r]
            /\ error' = Null
            /\ UNCHANGED << wikiStructure, currentPageId,
                            cacheLoadedSuccessfully, cycle >>
            /\ Advance(r, rr, run[r].idx + 1,
                       activeContentRequests \ {page.id},
                       pagesInProgress \ {page.id})

\* generatePageContent resumed with the result of
\* WikiService.generatePageContent, then the caller's loop.
generatePageContentReturn(r) ==
    /\ run[r].pc = "page"
    /\ UNCHANGED exportVars
    /\ UNCHANGED mountVars
    /\ UNCHANGED routeVars
    /\ \E ok \in BOOLEAN :
        LET page == CurrentPage(r)
            content == IF ok THEN GeneratedContent ELSE ErrorSentinel(PageFailure)
            rr == [run[r] EXCEPT !.failed = IF ok THEN @ ELSE @ \cup {page.id}]
        IN  /\ generatedPages' = Put(generatedPages, WithContent(page, content))
            /\ origin' = [origin EXCEPT ![page.id] = r]
            /\ UNCHANGED << error, wikiStructure, currentPageId,
                            cacheLoadedSuccessfully, cycle >>
            /\ Advance(r, rr, run[r].idx + 1,
                       activeContentRequests \ {page.id},
                       pagesInProgress \ {page.id})

\* The record the saveToCache awaited by run r sends.
SavedByRun(r) ==
    [structure |-> run[r].cl.wikiStructure, pages |-> run[r].cl.generatedPages]

\* A saveToCache that lets a failed save reach the catch block of loadWiki.
saveToCacheRethrows(r) ==
    /\ run[r].pc = "save"
    /\ UNCHANGED exportVars
    /\ UNCHANGED mountVars
    /\ UNCHANGED routeVars
    /\ UNCHANGED << loadingMessage, wikiStructure, generatedPages,
                    currentPageId, pagesInProgress, activeContentRequests,
                    cacheLoadedSuccessfully, cycle, origin >>
    /\ \E outcome \in SaveOutcomes :
         IF SaveWikiCache(outcome)
         THEN /\ isLoading' = FALSE
              /\ isRefreshing' = RefreshingAfter(r)
              /\ run' = [run EXCEPT ![r] = DoneRun]
              /\ finished' = Finished(r, run[r], "generated")
              /\ UNCHANGED error
              /\ Render(FALSE, <<>>, SavedByRun(r))
         ELSE /\ Fail(r, run[r], "Failed to save wiki cache")
              /\ Render(FALSE, <<>>, cache)

\* loadWiki resumed after the saveToCache it awaited: the result of the save
\* is not looked at.
saveToCacheReturn(r) ==
    /\ run[r].pc = "save"
    /\ UNCHANGED exportVars
    /\ UNCHANGED mountVars
    /\ UNCHANGED routeVars
    /\ isLoading' = FALSE
    /\ isRefreshing' = RefreshingAfter(r)
    /\ run' = [run EXCEPT ![r] = DoneRun]
    /\ finished' = Finished(r, run[r], "generated")
    /\ UNCHANGED << error, loadingMessage, wikiStructure, generatedPages,
                    currentPageId, pagesInProgress, activeContentRequests,
                    cacheLoadedSuccessfully, cycle, origin >>
    /\ \E outcome \in SaveOutcomes :
         Render(FALSE, <<>>,
                IF SaveWikiCache(outcome) THEN SavedByRun(r) ELSE cache)

----------------------------------------------------------------------------
Next ==
    \/ RefreshButton
    \/ handleModelSelectionApply
    \/ \E p \in PageIds : setCurrentPageId(p)
    \/ \E r \in Runs : loadWikiAfterCache(r)
    \/ \E r \in Runs : loadWikiAfterStructure(r)
    \/ \E r \in Runs : generatePageContentReturn(r)
    \/ \E r \in Runs : saveToCacheReturn(r)

Spec == Init /\ [][Next]_vars

\* A call some run waits for returns: the cache read, the structure
\* request, a page request or the save.
Returns ==
    \E r \in Runs :
        \/ loadWikiAfterCache(r)
        \/ loadWikiAfterStructure(r)
        \/ generatePageContentReturn(r)
        \/ saveToCacheReturn(r)

\* While calls are outstanding, one of them returns.
Fairness == WF_vars(Returns)

FairSpec == Spec /\ Fairness

----------------------------------------------------------------------------
\* The hook from its first render on: the mount effect
\* (useEffect(() => { if (effectRan.current === false) { effectRan.current
\* = true; loadWiki(); } }, [owner, repo, type, language])).

MountInit ==
    \* the first render, before its effects
    /\ isLoading = TRUE
    /\ isRefreshing = FALSE
    /\ error = Null
    /\ loadingMessage = MsgInit
    /\ wikiStructure = NoStructure
    /\ generatedPages = <<>>
    /\ currentPageId = ""
    /\ pagesInProgress = {}
    /\ activeContentRequests = {}
    /\ cacheLoadedSuccessfully = FALSE
    /\ run = [r \in Runs |-> IdleRun]
    /\ cycle = 0
    /\ cache \in {NoRecord, StoredRecord}
    /\ lastSaves = <<>>
    /\ savesInCycle = 0
    /\ finished = NoneFinished
    /\ origin = [p \in PageIds |-> 0]
    /\ exportError = Null
    /\ exportCalls = <<>>
    /\ download = NoDownload
    /\ exportEvent = "none"
    /\ RouteIdle
    /\ effectRan = FALSE
    /\ language = "en"
    /\ autoLoads = 0

\* An effect callback that calls loadWiki every time it runs.
effectCallbackUnguarded(comprehensive) ==
    IF cycle < MaxCycles
    THEN /\ effectRan' = TRUE
         /\ autoLoads' = autoLoads + 1
         /\ isLoading' = TRUE
         /\ error' = Null
         /\ loadingMessage' = MsgInit
         /\ cycle' = cycle + 1
         /\ run' = [run EXCEPT ![cycle + 1] = StartedRun(Closure(comprehensive))]
         /\ UNCHANGED << isRefreshing, wikiStructure, generatedPages,
                         currentPageId, pagesInProgress, activeContentRequests,
                         cacheLoadedSuccessfully, finished, origin >>
         /\ Render(FALSE, <<>>, cache)
    ELSE UNCHANGED << loadVars, effectRan, autoLoads >>

\* The callback of the mount effect, which calls loadWiki up to its first
\* await.
effectCallback(comprehensive) ==
    IF effectRan = FALSE
    THEN /\ effectRan' = TRUE
         /\ autoLoads' = autoLoads + 1
         /\ isLoading' = TRUE
         /\ error' = Null
         /\ loadingMessage' = MsgInit
         /\ cycle' = cycle + 1
         /\ run' = [run EXCEPT ![cycle + 1] = StartedRun(Closure(comprehensive))]
         /\ UNCHANGED << isRefreshing, wikiStructure, generatedPages,
                         currentPageId, pagesInProgress, activeContentRequests,
                         cacheLoadedSuccessfully, finished, origin >>
         /\ Render(FALSE, <<>>, cache)
    ELSE UNCHANGED << loadVars, effectRan, autoLoads >>

\* The effects of the first render.
mount ==
    /\ cycle = 0
    /\ \E comprehensive \in BOOLEAN : effectCallback(comprehensive)
    /\ UNCHANGED language
    /\ UNCHANGED exportVars
    /\ UNCHANGED routeVars

\* A render with another language: a dependency of the mount effect has
\* changed and its callback runs again.
languageChange ==
    /\ cycle > 0
    /\ language' \in Languages \ {language}
    /\ \E comprehensive \in BOOLEAN : effectCallback(comprehensive)
    /\ UNCHANGED exportVars
    /\ UNCHANGED routeVars

MountNext ==
    \/ mount
    \/ languageChange
    \/ (cycle > 0 /\ Next)

MountSpec == MountInit /\ [][MountNext]_vars

----------------------------------------------------------------------------
\* The export functions of the hook, applied to the states the hook passes
\* through.  The functions are part of what the hook returns and look at
\* the structure only; the page shows the export buttons in the wiki view.

Contents == {LoadingContent, GeneratedContent, ErrorSentinel(PageFailure)}

\* Content maps generateAllPages and generatePageContent build for a
\* structure.
MapsOf(structure) ==
    IF structure.pages = <<>> THEN { <<>> }
    ELSE { << WithContent(structure.pages[1], a),
              WithContent(structure.pages[2], b) >> : a, b \in Contents }

\* States of the hook: the first load, a failed first load, a cycle that
\* is generating or refreshing, Ready, a failed refresh, and Ready after
\* the page result of a superseded run was written into the map of a
\* structure without pages.
HookStates ==
    { [isLoading |-> TRUE, error |-> Null, wikiStructure |-> NoStructure,
       generatedPages |-> <<>>],
      [isLoading |-> FALSE, error |-> StructureFailure,
       wikiStructure |-> NoStructure, generatedPages |-> <<>>] }
    \cup
    { h \in UNION { [isLoading : BOOLEAN, error : {Null, StructureFailure},
                     wikiStructure : {s}, generatedPages : MapsOf(s)] :
                       s \in Structures } :
        /\ h.error # Null => ~h.isLoading
        /\ (h.generatedPages # <<>>
               /\ h.generatedPages[1].content = LoadingContent) =>
              h.isLoading /\ h.generatedPages[2].content = LoadingContent }
    \cup
    { [isLoading |-> FALSE, error |-> Null,
       wikiStructure |-> [id |-> "s0", pages |-> <<>>],
       generatedPages |-> Put(<<>>, WithContent(Intro, c))] :
         c \in {GeneratedContent, ErrorSentinel(PageFailure)} }

ExportInit ==
    /\ \E h \in HookStates :
          /\ isLoading = h.isLoading
          /\ error = h.error
          /\ wikiStructure = h.wikiStructure
          /\ generatedPages = h.generatedPages
          /\ currentPageId = IF Len(h.wikiStructure.pages) > 0
                             THEN h.wikiStructure.pages[1].id ELSE ""
    /\ isRefreshing = FALSE
    /\ loadingMessage = MsgInit
    /\ pagesInProgress = {}
    /\ activeContentRequests = {}
    /\ cacheLoadedSuccessfully = FALSE
    /\ run = [r \in Runs |-> IdleRun]
    /\ cycle = 1
    /\ cache = NoRecord
    /\ lastSaves = <<>>
    /\ savesInCycle = 0
    /\ finished = NoneFinished
    /\ origin = [p \in PageIds |-> 0]
    /\ exportError = Null
    /\ exportCalls = <<>>
    /\ download = NoDownload
    /\ exportEvent = "none"
    /\ Mounted
    /\ RouteIdle

\* Object.values(generatedPages): the entries in insertion order.
ObjectValues(gp) == [i \in 1..Len(gp) |-> gp[i]]

\* An export function without the test of the structure.
exportWikiAsUnchecked(format) ==
    /\ Len(exportCalls) < MaxExports
    /\ exportEvent' = format
    /\ exportError' = Null
    /\ exportCalls' = Append(exportCalls,
                             [format |-> format, pages |-> ObjectValues(generatedPages)])
    /\ UNCHANGED download
    /\ UNCHANGED loadVars
    /\ UNCHANGED routeVars
    /\ UNCHANGED mountVars

\* exportWikiAsJson and exportWikiAsMarkdown up to the await of
\* WikiService.exportWiki; they differ in the format and the file name.
exportWikiAs(format) ==
    /\ Len(exportCalls) < MaxExports
    /\ exportEvent' = format
    /\ IF wikiStructure = NoStructure
       THEN \* the throw is caught in the function itself
            /\ exportError' = StructureUnavailable
            /\ UNCHANGED exportCalls
       ELSE /\ exportError' = Null
            /\ exportCalls' = Append(exportCalls,
                                     [format |-> format,
                                      pages |-> ObjectValues(generatedPages)])
    /\ UNCHANGED download
    /\ UNCHANGED loadVars
    /\ UNCHANGED routeVars
    /\ UNCHANGED mountVars

exportWikiAsJson == exportWikiAs("json")

exportWikiAsMarkdown == exportWikiAs("markdown")

\* An export function whose catch block calls setError in place of
\* setExportError.
exportWikiReturnSetsError(i) ==
    /\ i \in 1..Len(exportCalls)
    /\ exportEvent' = "return"
    /\ exportCalls' = [k \in 1..(Len(exportCalls) - 1) |->
                         IF k < i THEN exportCalls[k] ELSE exportCalls[k + 1]]
    /\ \E outcome \in ExportOutcomes :
         CASE outcome = "ok" ->
                /\ download' = [name |-> FileName(exportCalls[i].format),
                                format |-> exportCalls[i].format,
                                pages |-> exportCalls[i].pages]
                /\ UNCHANGED << exportError, error >>
           [] outcome = "notok" ->
                /\ error' = ExportFailure
                /\ UNCHANGED << exportError, download >>
           [] outcome = "transport" ->
                /\ error' = FetchFailure
                /\ UNCHANGED << exportError, download >>
    /\ UNCHANGED << isLoading, isRefreshing, loadingMessage, wikiStructure,
                    generatedPages, currentPageId, pagesInProgress,
                    activeContentRequests, cacheLoadedSuccessfully,
                    run, cycle, cache, lastSaves,
                    savesInCycle, finished, origin >>
    /\ UNCHANGED routeVars
    /\ UNCHANGED mountVars

\* An export function resumed with the result of WikiService.exportWiki for
\* its request, the i-th of those that wait.
exportWikiReturn(i) ==
    /\ i \in 1..Len(exportCalls)
    /\ exportEvent' = "return"
    /\ exportCalls' = [k \in 1..(Len(exportCalls) - 1) |->
                         IF k < i THEN exportCalls[k] ELSE exportCalls[k + 1]]
    /\ \E outcome \in ExportOutcomes :
         CASE outcome = "ok" ->
                /\ download' = [name |-> FileName(exportCalls[i].format),
                                format |-> exportCalls[i].format,
                                pages |-> exportCalls[i].pages]
                /\ UNCHANGED exportError
           [] outcome = "notok" ->
                /\ exportError' = ExportFailure
                /\ UNCHANGED download
           [] outcome = "transport" ->
                /\ exportError' = FetchFailure
                /\ UNCHANGED download
    /\ UNCHANGED loadVars
    /\ UNCHANGED routeVars
    /\ UNCHANGED mountVars

ExportNext ==
    \/ exportWikiAsJson
    \/ exportWikiAsMarkdown
    \/ \E i \in 1..MaxExports : exportWikiReturn(i)

ExportSpec == ExportInit /\ [][ExportNext]_vars

----------------------------------------------------------------------------
\* The structure request: WikiService.generateWikiStructure posts to the
\* route /api/wiki/structure (route.ts), the route builds the backend request
\* and relays the backend's answer.  Strings the route takes apart are
\* sequences of characters; a message is the sequence of the fragments its
\* template joins.

\* The characters of an excluded-path input: a name character, the comma,
\* the double quote, the blank and the two brackets.
Chars == {"a", ",", "\"", " ", "[", "]"}

RECURSIVE StringsUpTo(_)
StringsUpTo(n) ==
    IF n = 0
    THEN {<<>>}
    ELSE LET shorter == StringsUpTo(n - 1)
         IN  shorter \cup
             { Append(s, c) : s \in {t \in shorter : Len(t) = n - 1}, c \in Chars }

\* node_modules, "my,dir"
NodeModulesMyDir ==
    << "n", "o", "d", "e", "_", "m", "o", "d", "u", "l", "e", "s", ",", " ",
       "\"", "m", "y", ",", "d", "i", "r", "\"" >>

\* ["node_modules", "my,dir"]
JsonNodeModulesMyDir ==
    << "[", "\"", "n", "o", "d", "e", "_", "m", "o", "d", "u", "l", "e", "s",
       "\"", ",", " ", "\"", "m", "y", ",", "d", "i", "r", "\"", "]" >>

\* ["a",""]  and  a, ,"a"  and  ["a"
NamedInputs ==
    { NodeModulesMyDir, JsonNodeModulesMyDir,
      << "[", "\"", "a", "\"", ",", "\"", "\"", "]" >>,
      << "a", ",", " ", ",", "\"", "a", "\"" >>,
      << "[", "\"", "a", "\"" >> }

Inputs == StringsUpTo(MaxLen) \cup NamedInputs

Min(S) == CHOOSE x \in S : \A y \in S : x <= y
Max(S) == CHOOSE x \in S : \A y \in S : x >= y

\* String.prototype.startsWith / endsWith for a one-character argument.
startsWith(s, c) == Len(s) > 0 /\ s[1] = c
endsWith(s, c) == Len(s) > 0 /\ s[Len(s)] = c

\* String.prototype.trim.
trim(s) ==
    LET kept == { i \in 1..Len(s) : s[i] # " " }
    IN  IF kept = {} THEN <<>> ELSE SubSeq(s, Min(kept), Max(kept))

\* String.prototype.split for one-character separators at the given
\* positions: the pieces from position from on.
RECURSIVE split(_, _, _)
split(s, from, separators) ==
    LET later == { i \in separators : i >= from }
    IN  IF later = {}
        THEN << SubSeq(s, from, Len(s)) >>
        ELSE << SubSeq(s, from, Min(later) - 1) >>
             \o split(s, Min(later) + 1, separators)

\* Where ',' matches.
commas(s) == { i \in 1..Len(s) : s[i] = "," }

\* Where /,(?=(?:[^"]*"[^"]*")*[^"]*$)/ matches: a comma with an even
\* number of double quotes between it and the end of the input.
regex(s) ==
    { i \in commas(s) :
        Cardinality({ j \in (i + 1)..Len(s) : s[j] = "\"" }) % 2 = 0 }

\* replace(/^"|"$/g, ''): a double quote at the start and one at the end of
\* what is left go.
replaceQuotes(s) ==
    LET t == IF startsWith(s, "\"") THEN Tail(s) ELSE s
    IN  IF endsWith(t, "\"") THEN SubSeq(t, 1, Len(t) - 1) ELSE t

\* The values of a parsed list.
JsString(chars) == [type |-> "string", value |-> chars]
JsArray(items) == [type |-> "array", value |-> items]

\* JSON.parse over Chars: the values are strings and arrays, blanks are the
\* white space, and a name character outside a string is no JSON.
SkipBlanks(s, i) ==
    LET rest == { j \in i..Len(s) : s[j] # " " }
    IN  IF rest = {} THEN Len(s) + 1 ELSE Min(rest)

SyntaxError == [ok |-> FALSE, next |-> 0, value |-> JsString(<<>>)]

JsonString(s, i) ==
    LET closing == { j \in (i + 1)..Len(s) : s[j] = "\"" }
    IN  IF closing = {}
        THEN SyntaxError
        ELSE [ok |-> TRUE, next |-> Min(closing) + 1,
              value |-> JsString(SubSeq(s, i + 1, Min(closing) - 1))]

RECURSIVE JsonValue(_, _)
RECURSIVE JsonElements(_, _, _)
JsonValue(s, i) ==
    IF i > Len(s) THEN SyntaxError
    ELSE IF s[i] = "\"" THEN JsonString(s, i)
    ELSE IF s[i] = "["
         THEN LET j == SkipBlanks(s, i + 1)
              IN  IF j <= Len(s) /\ s[j] = "]"
                  THEN [ok |-> TRUE, next |-> j + 1, value |-> JsArray(<<>>)]
                  ELSE JsonElements(s, j, <<>>)
    ELSE SyntaxError

JsonElements(s, i, items) ==
    LET v == JsonValue(s, i)
        j == SkipBlanks(s, v.next)
    IN  IF ~v.ok \/ j > Len(s) THEN SyntaxError
        ELSE IF s[j] = "]"
             THEN [ok |-> TRUE, next |-> j + 1,
                   value |-> JsArray(Append(items, v.value))]
        ELSE IF s[j] = ","
             THEN JsonElements(s, SkipBlanks(s, j + 1), Append(items, v.value))
        ELSE SyntaxError

JSONparse(s) ==
    LET v == JsonValue(s, SkipBlanks(s, 1))
    IN  IF v.ok /\ SkipBlanks(s, v.next) > Len(s) THEN v ELSE SyntaxError

\* The first declaration of POST: excluded_dirs / excluded_files of an
\* input.
excludedSplit(x) ==
    IF x = <<>>
    THEN <<>>
    ELSE LET pieces == split(x, 1, commas(x))
         IN  [i \in 1..Len(pieces) |-> JsString(trim(pieces[i]))]

\* The second declaration of POST: excluded_dirs / excluded_files of an
\* input.
excludedParsed(x) ==
    IF x = <<>>
    THEN <<>>
    ELSE IF startsWith(x, "[") /\ endsWith(x, "]")
         THEN IF JSONparse(x).ok
              THEN JSONparse(x).value.value
              ELSE << JsString(x) >>
         ELSE LET pieces == split(x, 1, regex(x))
                  cleaned == [i \in 1..Len(pieces) |->
                                replaceQuotes(trim(pieces[i]))]
                  NonEmpty(dir) == Len(dir) > 0
                  kept == SelectSeq(cleaned, NonEmpty)
              IN  [i \in 1..Len(kept) |-> JsString(kept[i])]

\* route.ts declares POST twice.
Declarations == {1, 2}

excluded(d, x) == IF d = 1 THEN excludedSplit(x) ELSE excludedParsed(x)

\* HTTP reason phrases.
StatusText(status) ==
    CASE status = "404" -> "Not Found"
      [] status = "500" -> "Internal Server Error"
      [] OTHER -> "OK"

\* What the backend does with the relayed request: it answers with the
\* structure, with a JSON body that has an error field, with a JSON body
\* without one, with a body that is no JSON, or the fetch fails.
BackendResponses ==
    { [kind |-> "data", status |-> "200", error |-> <<>>],
      [kind |-> "error", status |-> "404", error |-> << "Repository not found" >>],
      [kind |-> "json", status |-> "500", error |-> <<>>],
      [kind |-> "text", status |-> "500", error |-> <<>>],
      [kind |-> "transport", status |-> "", error |-> << "fetch failed" >>] }

\* The response of POST to a backend answer.
RouteResponse(b) ==
    CASE b.kind = "data" -> [status |-> "200", error |-> <<>>]
      [] b.kind = "transport" -> [status |-> "500", error |-> b.error]
      [] OTHER ->
           LET errorData == IF b.kind = "text"
                            THEN << StatusText(b.status) >> ELSE b.error
           IN  [status |-> b.status,
                error |-> IF errorData # <<>>
                          THEN errorData
                          ELSE << "Backend service responded with status: ",
                                  b.status >>]

RouteInit ==
    \* loadWiki has missed the cache and called generateWikiStructure
    /\ isLoading = TRUE
    /\ isRefreshing = FALSE
    /\ error = Null
    /\ loadingMessage = MsgStructure
    /\ wikiStructure = NoStructure
    /\ generatedPages = <<>>
    /\ currentPageId = ""
    /\ pagesInProgress = {}
    /\ activeContentRequests = {}
    /\ cacheLoadedSuccessfully = FALSE
    /\ run = [r \in Runs |->
                IF r = 1
                THEN [StartedRun(NoClosure) EXCEPT !.pc = "structure",
                                                   !.response = "absent",
                                                   !.structureCalls = 1]
                ELSE IdleRun]
    /\ cycle = 1
    /\ cache = NoRecord
    /\ lastSaves = <<>>
    /\ savesInCycle = 0
    /\ finished = NoneFinished
    /\ origin = [p \in PageIds |-> 0]
    /\ exportError = Null
    /\ exportCalls = <<>>
    /\ download = NoDownload
    /\ exportEvent = "none"
    /\ Mounted
    /\ declaration \in Declarations
    /\ \E x \in Inputs :
         requestBody \in { [excludedDirs |-> x, excludedFiles |-> <<>>],
                           [excludedDirs |-> <<>>, excludedFiles |-> x] }
    /\ backendRequestBody = NoBody
    /\ routeResponse = NoResponse
    /\ structureResult = NoResult
    /\ routePc = "request"

\* The handler of the route, declaration d.
POST(d) ==
    /\ routePc = "request"
    /\ declaration = d
    /\ backendRequestBody' =
          [excluded_dirs |-> excluded(d, requestBody.excludedDirs),
           excluded_files |-> excluded(d, requestBody.excludedFiles)]
    /\ \E b \in BackendResponses : routeResponse' = RouteResponse(b)
    /\ routePc' = "responded"
    /\ UNCHANGED << declaration, requestBody, structureResult >>
    /\ UNCHANGED loadVars
    /\ UNCHANGED exportVars
    /\ UNCHANGED mountVars

\* WikiService.generateWikiStructure resumed with the route's response.
generateWikiStructure ==
    /\ routePc = "responded"
    /\ structureResult' =
          IF routeResponse.status = "200"
          THEN [ok |-> TRUE, message |-> <<>>]
          ELSE [ok |-> FALSE,
                message |-> << "Failed to generate wiki structure: ",
                               StatusText(routeResponse.status) >>]
    /\ routePc' = "settled"
    /\ UNCHANGED << declaration, requestBody, backendRequestBody, routeResponse >>
    /\ UNCHANGED loadVars
    /\ UNCHANGED exportVars
    /\ UNCHANGED mountVars

\* The catch block of loadWiki for the error generateWikiStructure threw.
loadWikiCatch ==
    /\ routePc = "settled"
    /\ ~structureResult.ok
    /\ Fail(1, run[1], structureResult.message)
    /\ routePc' = "caught"
    /\ UNCHANGED << declaration, requestBody, backendRequestBody, routeResponse,
                    structureResult >>
    /\ UNCHANGED << loadingMessage, wikiStructure, generatedPages,
                    currentPageId, pagesInProgress, activeContentRequests,
                    cacheLoadedSuccessfully, cycle, cache, lastSaves,
                    savesInCycle, origin >>
    /\ UNCHANGED exportVars
    /\ UNCHANGED mountVars

RouteNext ==
    \/ \E d \in Declarations : POST(d)
    \/ generateWikiStructure
    \/ loadWikiCatch

RouteSpec == RouteInit /\ [][RouteNext]_vars

----------------------------------------------------------------------------
\* Vocabulary of the properties

\* The orchestrator states callers see.
Ready == ~isLoading /\ error = Null

\* A content entry that holds generated text or an error sentinel.
Terminal(entry) == entry.content # LoadingContent

\* Run r takes the step.
Steps(r) == run'[r] # run[r]

\* The page call of run r returns in the step.
PageCallReturns(r) == run[r].pc = "page" /\ Steps(r)

\* The cache read of run r returns in the step.
CacheReadReturns(r) == run[r].pc = "cache" /\ Steps(r)

\* The structure call of run r returns in the step.
StructureCallReturns(r) == run[r].pc = "structure" /\ Steps(r)

\* The saveToCache awaited by run r returns in the step.
SaveReturns(r) == run[r].pc = "save" /\ Steps(r)

\* History of run r after the step (kept in finished once the run ended).
HistoryAfter(r) == IF run'[r].pc = "done" THEN finished' ELSE run'[r]

\* Page id of the call run r waits for after the step.
PageAfter(r) == run'[r].structure.pages[run'[r].idx].id

OutstandingAfter(p) == { r \in Runs : run'[r].pc = "page" /\ PageAfter(r) = p }

\* The history of the most recently started cycle is at hand: its run has
\* not ended, or it is the run that ended last.
CycleKnown == run[cycle].pc # "done" \/ finished.id = cycle

\* Structure and view mode of the most recently started cycle.
CycleStructure ==
    IF run[cycle].pc # "done" THEN run[cycle].structure ELSE finished.structure

CycleView ==
    IF run[cycle].pc # "done" THEN run[cycle].cl.isComprehensiveView
    ELSE finished.view

\* Pages the selection policy of the most recently started cycle targets.
Targeted ==
    { CycleStructure.pages[k] : k \in { k \in 1..Len(CycleStructure.pages) :
                                          Selected(CycleStructure.pages[k], CycleView) } }

\* Ids of the pages the selection policy schedules, in structure order.
RECURSIVE ExpectedCalls(_, _)
ExpectedCalls(pages, comprehensive) ==
    IF pages = <<>> THEN <<>>
    ELSE LET rest == ExpectedCalls(Tail(pages), comprehensive)
         IN  IF comprehensive \/ Head(pages).importance = "high"
             THEN <<Head(pages).id>> \o rest
             ELSE rest

----------------------------------------------------------------------------
\* C1: at most one backend page call per page id is outstanding, and a
\* generatePageContent invocation for a page id that is in flight issues no
\* call and leaves the in-flight map, the progress set and the outstanding
\* call as they are, whatever load and refresh cycles overlap.
C1_InFlightGuard ==
    [][ /\ \A p \in PageIds : Cardinality(OutstandingAfter(p)) <= 1
        /\ \A r \in Runs : Steps(r) =>
             \A p \in HistoryAfter(r).skipped \ run[r].skipped :
                /\ OutstandingAfter(p) = Outstanding(p)
                /\ r \notin Outstanding(p)
                /\ Outstanding(p) # {}
                /\ p \in activeContentRequests'
                /\ p \in pagesInProgress'
                /\ Len(HistoryAfter(r).issued) <= Len(run[r].issued) + 1
                /\ \A i \in (Len(run[r].issued) + 1)..Len(HistoryAfter(r).issued) :
                      HistoryAfter(r).issued[i] # p
      ]_vars

\* A run passed over a page whose call, made by another run, is outstanding.
C1_Witness ==
    \E r \in Runs : \E p \in run[r].skipped :
        /\ run[r].pc = "page"
        /\ Outstanding(p) # {}
        /\ r \notin Outstanding(p)

\* C2: a page result of a run that is not the most recently started cycle
\* leaves the content map as it is.
C2_StaleResultDiscarded ==
    [][ \A r \in Runs : (PageCallReturns(r) /\ r # cycle) =>
            generatedPages' = generatedPages ]_vars

\* C3: the content map never holds generated content or error sentinels
\* written by two different cycles.
C3_SingleEpochContentMap ==
    \A i, j \in 1..Len(generatedPages) :
        (Terminal(generatedPages[i]) /\ Terminal(generatedPages[j])) =>
            origin[generatedPages[i].id] = origin[generatedPages[j].id]

\* C4: at most one cache save is issued per cycle, and none in a cycle that
\* was loaded from the cache.
C4_SaveAtMostOncePerCycle ==
    /\ savesInCycle <= 1
    /\ (finished.id = cycle /\ finished.outcome = "hit") => lastSaves = <<>>

\* C5: a cycle that generated its pages issued exactly one call per page the
\* selection policy schedules, in structure order.
C5_OneCallPerSelectedPage ==
    finished.outcome = "generated" =>
        finished.issued = ExpectedCalls(finished.structure.pages, finished.view)

\* C6: a failed page call stores the error sentinel for that page only,
\* leaves every other entry and the orchestrator error as they are, and the
\* run goes on: it issues the next selected page that is not in flight, or
\* ends on the normal path with the loading flag cleared.
C6_PartialFailureIsolation ==
    [][ \A r \in Runs : Steps(r) =>
        \A p \in HistoryAfter(r).failed \ run[r].failed :
          /\ PageCallReturns(r)
          /\ HasKey(generatedPages', p)
          /\ Entry(generatedPages', p).content = ErrorSentinel(PageFailure)
          /\ Keys(generatedPages') = Keys(generatedPages) \cup {p}
          /\ \A q \in Keys(generatedPages) \ {p} :
                Entry(generatedPages', q) = Entry(generatedPages, q)
          /\ error' = error
          /\ LET later == { k \in (run[r].idx + 1)..Len(run[r].structure.pages) :
                             /\ Selected(run[r].structure.pages[k],
                                         run[r].cl.isComprehensiveView)
                             /\ run[r].structure.pages[k].id
                                   \notin (activeContentRequests \ {p}) }
             IN  IF later # {}
                 THEN /\ run'[r].pc = "page"
                      /\ run'[r].idx \in later
                      /\ \A k \in later : run'[r].idx <= k
                 ELSE \/ run'[r].pc = "save"
                      \/ /\ run'[r].pc = "done"
                         /\ finished'.id = r
                         /\ finished'.outcome = "generated"
                         /\ ~isLoading'
      ]_vars

\* A cycle in which a page failed has ended Ready.
C6_Witness ==
    /\ finished.failed # {}
    /\ finished.outcome = "generated"
    /\ Ready
    /\ \E i \in 1..Len(generatedPages) :
          generatedPages[i].content = ErrorSentinel(PageFailure)

\* C7: a refresh invoked from Ready or Error that ends without error has
\* sent a structure-generation request.
C7_RefreshRegenerates ==
    ( /\ finished.id # 0
      /\ Kind(finished.id) = "refresh"
      /\ ~finished.startedLoading
      /\ finished.outcome # "failed" )
        => finished.structureCalls >= 1

\* C8: at most one page-generation call is outstanding in total.
C8_SequentialIssue == Cardinality(OutstandingPageCalls) <= 1

\* C9: every failed or malformed cache read yields absent, the cycle goes on
\* to structure generation, and no cache read sets the orchestrator error.
C9_CacheReadNeverFatal ==
    [][ \A r \in Runs : CacheReadReturns(r) =>
            /\ error' = error
            /\ HistoryAfter(r).response # "record" => run'[r].pc = "structure"
      ]_vars

C11_StructureFailureFatal ==
    [][ \A r \in Runs :
          (StructureCallReturns(r) /\ finished'.id = r
                                   /\ finished'.outcome = "failed") =>
              /\ run[r].response = "absent"
              /\ error' = StructureFailure
              /\ ~isLoading'
              /\ run'[r].pc = "done"
              /\ finished'.structureCalls = 1
              /\ finished'.issued = <<>>
              /\ finished'.saves = 0
              /\ lastSaves' = <<>>
              /\ cache' = cache
              /\ wikiStructure' = wikiStructure
              /\ generatedPages' = generatedPages
              /\ activeContentRequests' = activeContentRequests
              /\ pagesInProgress' = pagesInProgress
      ]_vars

\* A refresh of a wiki that was on display missed the cache and its
\* structure call failed.
C11_Witness ==
    /\ error = StructureFailure
    /\ ~isLoading
    /\ finished.id = cycle
    /\ Kind(finished.id) = "refresh"
    /\ finished.outcome = "failed"
    /\ finished.structureCalls = 1
    /\ wikiStructure # NoStructure
    /\ Len(generatedPages) > 0
    /\ ~cacheLoadedSuccessfully

\* C12: when the save awaited by a run returns, failed or not, the
\* orchestrator error, the structure and the content map are as they were,
\* the run ends on its normal path with the loading flag cleared, and the
\* orchestrator is Ready unless an error was set before; a save of the save
\* effect that did not reach the store leaves the orchestrator Ready with
\* the structure and content map it tried to store.
C12_PersistFailureNonFatal ==
    [][ /\ \A r \in Runs : SaveReturns(r) =>
              /\ error' = error
              /\ wikiStructure' = wikiStructure
              /\ generatedPages' = generatedPages
              /\ ~isLoading'
              /\ run'[r].pc = "done"
              /\ finished'.id = r
              /\ finished'.outcome = "generated"
              /\ error = Null => Ready'
              /\ cache' # SavedByRun(r) =>
                     \/ cache' = cache
                     \/ /\ lastSaves' # <<>>
                        /\ cache' = [structure |-> wikiStructure',
                                     pages |-> generatedPages']
        /\ ( /\ lastSaves' # <<>>
             /\ lastSaves'[Len(lastSaves')].by = 0
             /\ cache' # [structure |-> wikiStructure', pages |-> generatedPages'] )
            => /\ Ready'
               /\ lastSaves'[Len(lastSaves')].structure = wikiStructure'
               /\ lastSaves'[Len(lastSaves')].pages = generatedPages'
      ]_vars

\* Every save of two cycles failed, the awaited save of the second cycle
\* last, and the orchestrator is Ready.
C12_Witness ==
    /\ Ready
    /\ finished.id = cycle
    /\ finished.outcome = "generated"
    /\ finished.saves = 1
    /\ lastSaves = <<>>
    /\ wikiStructure # NoStructure
    /\ cache = NoRecord

\* C13: a save is issued only when no page call of the current cycle is
\* outstanding, and every record handed to the save holds generated text or
\* an error sentinel for each page the current cycle's policy targets.
C13_SaveOnlyAfterCompletion ==
    (lastSaves # <<>> /\ CycleKnown) =>
        /\ run[cycle].pc # "page"
        /\ \A i \in 1..Len(lastSaves) : \A page \in Targeted :
              /\ HasKey(lastSaves[i].pages, page.id)
              /\ Terminal(Entry(lastSaves[i].pages, page.id))

\* C14: from the moment the cache read of a run returned absent until the
\* run has ended, the cache-sourced flag is false.
C14_FlagClearedWhileGenerating ==
    [][ \A r \in Runs :
          (run[r].pc \in {"structure", "page", "save"}
              \/ run'[r].pc \in {"structure", "page", "save"})
            => ~cacheLoadedSuccessfully' ]_vars

\* C15: while the orchestrator error is set, every step that is not an
\* invocation of refreshWiki leaves an error set and the loading flag
\* cleared; an invocation of refreshWiki clears the error.
C15_ErrorTerminalUntilRefresh ==
    [][ error # Null =>
          IF cycle' = cycle
          THEN error' # Null /\ ~isLoading'
          ELSE error' = Null
      ]_vars

\* The results of an older run arrived after the newest cycle had failed,
\* and the error is still set.
C15_Witness ==
    /\ error # Null
    /\ finished.id # 0
    /\ finished.id < cycle
    /\ finished.outcome = "generated"
    /\ finished.issued # <<>>

\* C16: in every run the structure request follows a cache read that
\* returned absent, page requests follow the structure, and the awaited
\* save follows the last page request; a save is issued only when the
\* current cycle has no cache read, structure call or page call
\* outstanding; and the orchestrator is Ready only when the current cycle
\* has ended, by a cache hit or after its page generation.
C16_CycleOrdering ==
    /\ \A r \in Runs :
          /\ run[r].structureCalls >= 1 => run[r].response = "absent"
          /\ run[r].pc \in {"page", "save"} =>
                run[r].structureCalls = 1 /\ run[r].structure \in Structures
          /\ run[r].issued # <<>> => run[r].pc \in {"page", "save"}
          /\ run[r].saves >= 1 => run[r].pc = "save"
    /\ lastSaves # <<>> => run[cycle].pc \in {"save", "done"}
    /\ Ready =>
          /\ run[cycle].pc = "done"
          /\ finished.id = cycle => finished.outcome \in {"hit", "generated"}

\* C17: a page call that returns, with content or with a failure, takes
\* its page id out of the in-flight map and the progress set; when no page
\* call is outstanding both are empty.
C17_InFlightRemoved ==
    [][ /\ \A r \in Runs : PageCallReturns(r) =>
              /\ CurrentPage(r).id \notin activeContentRequests'
              /\ CurrentPage(r).id \notin pagesInProgress'
        /\ OutstandingPageCalls' = {} =>
              /\ activeContentRequests' = {}
              /\ pagesInProgress' = {}
      ]_vars

\* A run whose two page calls returned, one with a failure, has ended and
\* no call is outstanding.
C17_Witness ==
    /\ Len(finished.issued) = 2
    /\ Cardinality(finished.failed) = 1
    /\ OutstandingPageCalls = {}
    /\ activeContentRequests = {}
    /\ pagesInProgress = {}

\* C18: while the orchestrator is Ready the progress set is empty, and
\* every step that is not an invocation of refreshWiki leaves the
\* structure, the content map and the progress set as they are.
C18_ReadyStable ==
    [][ Ready =>
          /\ pagesInProgress = {}
          /\ cycle' = cycle =>
                /\ wikiStructure' = wikiStructure
                /\ generatedPages' = generatedPages
                /\ pagesInProgress' = pagesInProgress
      ]_vars

\* C19: when a cycle that generated its pages in restricted mode has ended
\* Ready, no page of its structure whose importance is not high has had a
\* page request, and the content of such a page is unset or differs from
\* the placeholder of a page that is pending generation.
C19_LoadShedding ==
    ( /\ Ready
      /\ finished.id = cycle
      /\ finished.outcome = "generated"
      /\ ~finished.view )
    => \A k \in 1..Len(finished.structure.pages) :
          LET page == finished.structure.pages[k]
          IN  page.importance # "high" =>
                /\ \A i \in 1..Len(finished.issued) : finished.issued[i] # page.id
                /\ \/ ~HasKey(generatedPages, page.id)
                   \/ Entry(generatedPages, page.id).content # LoadingContent

\* C20: an export function invoked while the structure is absent sets the
\* export error to the message of the structure test and sends no export
\* request; no file is handed to the browser.
C20_ExportWithoutStructure ==
    [][ (exportEvent' \in Formats /\ wikiStructure = NoStructure) =>
          /\ exportError' = StructureUnavailable
          /\ exportCalls' = exportCalls
          /\ download' = download
      ]_vars

\* Both export functions have been invoked without a structure, the
\* Markdown export last.
C20_Witness ==
    /\ wikiStructure = NoStructure
    /\ exportEvent = "markdown"
    /\ exportError = StructureUnavailable
    /\ exportCalls = <<>>
    /\ download = NoDownload

\* C21: an export request is sent only while the orchestrator is Ready: a
\* step that adds a request to those that wait starts from a state that is
\* not loading and has no error.
C21_ExportRequiresReady ==
    [][ Len(exportCalls') > Len(exportCalls) => Ready ]_vars

\* C22: every step of an export function, the invocation and the return of
\* its request, successful or failed, leaves the loading flag, the
\* orchestrator error, the structure, the content map, the in-flight map,
\* the progress set, the cache-sourced flag and the current page as they
\* are.
C22_ExportReadOnly ==
    [][ exportEvent' \in Formats \cup {"return"} =>
          /\ isLoading' = isLoading
          /\ error' = error
          /\ wikiStructure' = wikiStructure
          /\ generatedPages' = generatedPages
          /\ activeContentRequests' = activeContentRequests
          /\ pagesInProgress' = pagesInProgress
          /\ cacheLoadedSuccessfully' = cacheLoadedSuccessfully
          /\ currentPageId' = currentPageId
      ]_vars

\* One export has handed its file to the browser and another has failed.
C22_Witness ==
    /\ exportEvent = "return"
    /\ exportError = ExportFailure
    /\ download # NoDownload
    /\ wikiStructure # NoStructure
    /\ Len(generatedPages) > 0

\* C23: the page sequence of every export request holds the pages of the
\* current structure, each once and in the structure's order, each with
\* its entry of the content map, and no other page.
C23_ExportContentAndOrder ==
    [][ Len(exportCalls') > Len(exportCalls) =>
          LET pages == exportCalls'[Len(exportCalls')].pages
          IN  /\ Len(pages) = Len(wikiStructure.pages)
              /\ \A i \in 1..Len(pages) :
                    /\ i <= Len(wikiStructure.pages)
                    /\ pages[i].id = wikiStructure.pages[i].id
                    /\ HasKey(generatedPages, pages[i].id)
                    /\ pages[i] = Entry(generatedPages, pages[i].id)
      ]_vars

\* Page ids of the structures the hook holds or a run has obtained.
HeldPageIds ==
    { wikiStructure.pages[i].id : i \in 1..Len(wikiStructure.pages) }
    \cup UNION { { run[r].structure.pages[i].id :
                     i \in 1..Len(run[r].structure.pages) } : r \in Runs }

\* C25: in every state a caller can observe, pagesInProgress is the set of
\* page ids with an outstanding generation call, and each of them is a page
\* of a structure the hook holds or has obtained.
C25_ProgressEqualsOutstanding ==
    /\ pagesInProgress = { p \in PageIds : Outstanding(p) # {} }
    /\ pagesInProgress \subseteq HeldPageIds

\* A refresh has started while the mount load waits for a page: its run
\* passed over that page and waits for the other one.
C25_Witness ==
    /\ pagesInProgress = PageIds
    /\ Cardinality(OutstandingPageCalls) = 2
    /\ cycle = 2

\* The state of the current cycle as a caller sees it: Ready or Error once
\* the loading flag is down, else the step its run is suspended in.
Phase ==
    IF ~isLoading
    THEN IF error # Null THEN <<"Error", "">> ELSE <<"Ready", "">>
    ELSE CASE run[cycle].pc = "cache" -> <<"CacheLoading", "">>
           [] run[cycle].pc = "structure" -> <<"StructureGeneration", "">>
           [] run[cycle].pc = "page" -> <<"PageGeneration", CurrentPage(cycle).id>>
           [] run[cycle].pc = "save" -> <<"Persisting", "">>
           [] OTHER -> <<"none", "">>

\* C26: every step that takes the cycle into another state (cache loading,
\* structure generation, generation of a page, persisting, Ready, Error)
\* sets the status string anew.
C26_StatusAtEachTransition ==
    [][ Phase' # Phase => loadingMessage' # loadingMessage ]_vars

\* C30: every save a step issues passes the structure and the content map
\* the hook holds after that step, never values held before the current
\* refresh began.
C30_SavedDataCurrent ==
    \A i \in 1..Len(lastSaves) :
        /\ lastSaves[i].structure = wikiStructure
        /\ lastSaves[i].pages = generatedPages

----------------------------------------------------------------------------
\* Vocabulary of the properties of the structure request

\* The route has built the backend request.
Handled == routePc \in {"responded", "settled", "caught"}

\* Each excluded-path input of the request with the list built from it.
HandledInputs ==
    { << requestBody.excludedDirs, backendRequestBody.excluded_dirs >>,
      << requestBody.excludedFiles, backendRequestBody.excluded_files >> }

JsonForm(x) == startsWith(x, "[") /\ endsWith(x, "]")
CommaForm(x) == x # <<>> /\ ~JsonForm(x)

\* Position i of x lies inside a double-quoted segment: an odd number of
\* double quotes precede it.
InQuotes(x, i) == Cardinality({ j \in 1..(i - 1) : x[j] = "\"" }) % 2 = 1

QuoteFree(t) == \A i \in 1..Len(t) : t[i] # "\""

\* The entries of a comma-separated input: what lies between the commas
\* outside quoted segments.
Entries(x) == split(x, 1, { i \in commas(x) : ~InQuotes(x, i) })

\* An entry is a bare name or one quoted segment, blanks around it aside.
PlainOrQuoted(t) ==
    \/ QuoteFree(t)
    \/ /\ Len(t) >= 2 /\ t[1] = "\"" /\ t[Len(t)] = "\""
       /\ QuoteFree(SubSeq(t, 2, Len(t) - 1))

WellFormed(x) ==
    \A i \in 1..Len(Entries(x)) : PlainOrQuoted(trim(Entries(x)[i]))

\* The entries without the blanks and the quotes around them.
ExpectedList(x) ==
    [i \in 1..Len(Entries(x)) |->
        LET t == trim(Entries(x)[i])
        IN  JsString(IF startsWith(t, "\"") THEN SubSeq(t, 2, Len(t) - 1) ELSE t)]

NonEmptyEntries(list) ==
    LET NonEmpty(e) == e.value # <<>>
    IN  SelectSeq(list, NonEmpty)

AllStrings(list) == \A i \in 1..Len(list) : list[i].type = "string"

\* The fragments of part occur in text, in a row.
Contains(text, part) ==
    \E i \in 0..(Len(text) - Len(part)) : SubSeq(text, i + 1, i + Len(part)) = part

\* C24: for a comma-separated excluded-directories or excluded-files input
\* whose entries are bare names or quoted segments, the list sent to the
\* backend holds the entries between the commas outside quotes, each
\* without the blanks and the quotes around it; node_modules, "my,dir"
\* gives exactly [node_modules, my,dir].
C24_QuoteAwareParsing ==
    Handled =>
      \A h \in HandledInputs :
        /\ (CommaForm(h[1]) /\ WellFormed(h[1])) =>
              NonEmptyEntries(h[2]) = NonEmptyEntries(ExpectedList(h[1]))
        /\ h[1] = NodeModulesMyDir =>
              h[2] = << JsString(<< "n", "o", "d", "e", "_", "m", "o", "d", "u",
                                    "l", "e", "s" >>),
                        JsString(<< "m", "y", ",", "d", "i", "r" >>) >>

\* C28: when the structure request fails, the cause the hook ends with
\* contains the error message the route returned for the request.
C28_CauseAttached ==
    routePc = "caught" => Contains(error, routeResponse.error)

\* C29: an input in JSON-array form that parses to an array of strings
\* gives the list the route builds for the same entries without the
\* brackets; one that does not parse gives the list holding the raw input
\* alone; a comma-separated input gives a list without empty entries.
C29_JsonArrayForm ==
    Handled =>
      \A h \in HandledInputs :
        /\ (JsonForm(h[1]) /\ JSONparse(h[1]).ok
                /\ AllStrings(JSONparse(h[1]).value.value)) =>
              h[2] = excluded(declaration, SubSeq(h[1], 2, Len(h[1]) - 1))
        /\ (JsonForm(h[1]) /\ ~JSONparse(h[1]).ok) => h[2] = << JsString(h[1]) >>
        /\ CommaForm(h[1]) => \A i \in 1..Len(h[2]) : h[2][i].value # <<>>

----------------------------------------------------------------------------
\* Runs that wait for a cache read, the structure or a page.
Working == { r \in Runs : run[r].pc \in {"cache", "structure", "page"} }

\* C31: while any load or refresh run waits for its cache read, its
\* structure or a page, the loading flag is true.
C31_LoadingCoversRunningCycles == Working # {} => isLoading

\* C32: a run that is not the most recently started one and ends in its
\* catch block leaves the error as it is; and when the most recently
\* started run ends without a failure, the hook is Ready.
C32_OlderFailureDoesNotOverride ==
    [][ \A r \in Runs :
          /\ ( /\ r < cycle
               /\ Steps(r)
               /\ run'[r].pc = "done"
               /\ finished'.outcome = "failed" ) => error' = error
          /\ ( /\ r = cycle
               /\ Steps(r)
               /\ run'[r].pc = "done"
               /\ finished'.outcome # "failed" ) => Ready'
      ]_vars

\* C33: in Ready with a structure, every page of the structure that the
\* view mode of the most recently started cycle selects has an entry that
\* holds generated text or an error sentinel.
C33_SelectedPagesTerminal ==
    ( Ready /\ wikiStructure # NoStructure /\ CycleKnown ) =>
       \A k \in 1..Len(wikiStructure.pages) :
          Selected(wikiStructure.pages[k], CycleView) =>
             /\ HasKey(generatedPages, wikiStructure.pages[k].id)
             /\ Terminal(Entry(generatedPages, wikiStructure.pages[k].id))

\* C34: while the hook holds a structure that a run installed from the
\* structure request, the keys of the content map are the page ids of that
\* structure, and no step that applies a page result adds another key.
C34_ContentMapDomain ==
    [][ /\ ( /\ wikiStructure' # NoStructure
             /\ \E r \in Runs : run'[r].structure = wikiStructure' ) =>
               Keys(generatedPages') =
                  { wikiStructure'.pages[k].id : k \in 1..Len(wikiStructure'.pages) }
        /\ \A r \in Runs : PageCallReturns(r) =>
               Keys(generatedPages') \subseteq
                  Keys(generatedPages) \cup
                  { wikiStructure.pages[k].id : k \in 1..Len(wikiStructure.pages) }
      ]_vars

\* C36: whenever the loading flag is false and there is no error, the
\* structure is present.
C36_ReadyImpliesStructure == Ready => wikiStructure # NoStructure

\* C38: in Ready with a structure of at least one page the current page id
\* is the id of a page of that structure; a run that installs a generated
\* structure with pages sets it to the first of them; a cache hit sets it
\* to the first cached page exactly if no page was selected before.
C38_CurrentPageValid ==
    [][ /\ ( Ready' /\ Len(wikiStructure'.pages) > 0 ) =>
              \E k \in 1..Len(wikiStructure'.pages) :
                 wikiStructure'.pages[k].id = currentPageId'
        /\ \A r \in Runs :
              /\ ( StructureCallReturns(r) /\ Len(HistoryAfter(r).structure.pages) > 0 ) =>
                    currentPageId' = HistoryAfter(r).structure.pages[1].id
              /\ ( /\ CacheReadReturns(r)
                   /\ run'[r].pc = "done"
                   /\ finished'.outcome = "hit"
                   /\ Len(wikiStructure'.pages) > 0 ) =>
                    currentPageId' = IF currentPageId = ""
                                     THEN wikiStructure'.pages[1].id
                                     ELSE currentPageId
      ]_vars

\* No run waits for anything, both flags are down and nothing is in flight.
Quiescent ==
    /\ \A r \in Runs : run[r].pc \in {"idle", "done"}
    /\ ~isLoading
    /\ ~isRefreshing
    /\ activeContentRequests = {}

\* C35: if every call returns, then whatever loads and refreshes have been
\* started, a state follows in which every started run has ended, the
\* loading flag and the refreshing flag are false and the in-flight map is
\* empty.
C35_Termination == []<>Quiescent

\* A refresh that overlapped the mount load has ended, both runs are done
\* and nothing is in flight.
C35_Witness ==
    /\ cycle = 2
    /\ \A r \in Runs : run[r].pc = "done"
    /\ finished.id = 1
    /\ ~isLoading /\ ~isRefreshing
    /\ activeContentRequests = {} /\ pagesInProgress = {}

\* C37: the mount effect starts a load exactly once, with the first render;
\* no change of its dependencies starts another, so every cycle but the
\* first is started by refreshWiki.
C37_AutomaticLoadOnce ==
    [][ /\ autoLoads' <= 1
        /\ language' # language => (cycle' = cycle /\ autoLoads' = autoLoads)
        /\ cycle' > cycle =>
             IF cycle = 0
             THEN autoLoads' = 1 /\ ~isRefreshing'
             ELSE autoLoads' = autoLoads /\ isRefreshing' ]_vars

\* The language has changed after the mount load and a refresh has started
\* the only other cycle.
C37_Witness ==
    /\ language = "ja"
    /\ cycle = 2
    /\ autoLoads = 1
    /\ run[2].pc # "idle"

====
